---- MODULE Spec2Model ----
(***************************************************************************)
(* A model of lru_cache.py: LRUCache (an OrderedDict with a dirty flag and *)
(* a byte budget) and PersistentLRUCache (the same, loaded from and saved  *)
(* to one pickle file).  Every instance of the model is a                  *)
(* PersistentLRUCache on the same filename; the operations it inherits     *)
(* from LRUCache are modelled on it.                                       *)
(*                                                                         *)
(* Keys are the Python ints 1..NumKeys.  Values are None or a Python int   *)
(* >= 0; None is written NoneValue.  A store (self._data) is the sequence  *)
(* of its <<key, value>> items in iteration order.  The pickle of a store  *)
(* is the sequence of the bytes pickle protocol 5 writes for it.           *)
(***************************************************************************)
EXTENDS Integers, Sequences, FiniteSets, TLC

\* ------------------------------------------------------------------ bounds
NumKeys == 3
MaxOps == 3
MaxItems == 4
MinBudget == 44
MaxBudget == 76
MaxDepth == 2
MaxHeld == 2
MaxOther == 1
SmallBudget == 56

\* ------------------------------------------------------- program constants
DEFAULT_MAX_BYTESIZE == 1073741824
NoneValue == -1

Caches == {1, 2}
Keys == 1..NumKeys
Values == {NoneValue, 70000}
Budgets == (MinBudget..MaxBudget) \cup {DEFAULT_MAX_BYTESIZE}
NoFile == <<>>

VARIABLES
    alive,                    \* the instances that have been constructed
    data,                     \* self._data of each instance
    did_change,               \* self._did_change of each instance
    max_bytesize,             \* self._max_bytesize of each instance
    caches_to_close_atexit,   \* the module's WeakSet of instances
    file,                     \* the bytes of the file at filename, or NoFile
    last,                     \* the last operation: its arguments, the state before it, its outcome
    touched,                  \* for each instance, its keys from the one read or written longest ago to the latest
    nops,                     \* the number of operations so far
    shutdown,                 \* whether the process has exited, and what _close_atexit did
    loading                   \* the get_or_load calls that are running load_value(), innermost first

vars == <<alive, data, did_change, max_bytesize, caches_to_close_atexit, file, last, touched, nops, shutdown, loading>>

\* ------------------------------------------------------------ OrderedDict
Has(d, k) == \E i \in 1..Len(d) : d[i][1] = k

IndexOf(d, k) == CHOOSE i \in 1..Len(d) : d[i][1] = k

KeyList(d) == [i \in 1..Len(d) |-> d[i][1]]

\* d.get(k, default)
Lookup(d, k, default) == IF Has(d, k) THEN d[IndexOf(d, k)][2] ELSE default

\* del d[k], for a key that is present
Remove(d, k) == SelectSeq(d, LAMBDA e : e[1] # k)

\* d[k] = v: a present key keeps its place, a new key goes last
Assign(d, k, v) ==
    IF Has(d, k) THEN [d EXCEPT ![IndexOf(d, k)] = <<k, v>>] ELSE Append(d, <<k, v>>)

MoveToEndSwap(d, k) ==
    [j \in 1..Len(d) |-> IF j = IndexOf(d, k) THEN d[Len(d)]
                         ELSE IF j = Len(d) THEN d[IndexOf(d, k)] ELSE d[j]]

\* d.move_to_end(k, last=True), for a key that is present
MoveToEnd(d, k) == Append(Remove(d, k), d[IndexOf(d, k)])

RECURSIVE Update(_, _)
\* d.update(other)
Update(d, other) ==
    IF other = <<>> THEN d
    ELSE Update(Assign(d, other[1][1], other[1][2]), Tail(other))

\* ------------------------------------------------------------------ pickle
\* The opcodes of pickle protocol 5 that the pickle of an OrderedDict of ints and None uses.
Opcode ==
    [PROTO |-> 128, FRAME |-> 149, SHORT_BINUNICODE |-> 140, MEMOIZE |-> 148,
     STACK_GLOBAL |-> 147, EMPTY_TUPLE |-> 41, REDUCE |-> 82, MARK |-> 40,
     NONE |-> 78, BININT1 |-> 75, BININT2 |-> 77, BININT |-> 74,
     SETITEM |-> 115, SETITEMS |-> 117, STOP |-> 46]

RECURSIVE LittleEndian(_, _)
\* n as w little-endian bytes
LittleEndian(n, w) ==
    IF w = 0 THEN <<>> ELSE <<n % 256>> \o LittleEndian(n \div 256, w - 1)

RECURSIVE FromLittleEndian(_, _, _)
FromLittleEndian(b, p, w) ==
    IF w = 0 THEN 0 ELSE b[p] + 256 * FromLittleEndian(b, p + 1, w - 1)

\* None, or an int in 0 .. 2^31 - 1
SaveObject(v) ==
    IF v = NoneValue THEN <<Opcode.NONE>>
    ELSE IF v <= 255 THEN <<Opcode.BININT1, v>>
    ELSE IF v <= 65535 THEN <<Opcode.BININT2>> \o LittleEndian(v, 2)
    ELSE <<Opcode.BININT>> \o LittleEndian(v, 4)

RECURSIVE SaveItems(_)
SaveItems(d) ==
    IF d = <<>> THEN <<>>
    ELSE SaveObject(d[1][1]) \o SaveObject(d[1][2]) \o SaveItems(Tail(d))

\* the items of a dict, in one batch (a batch holds up to 1000 items)
SaveBatch(d) ==
    IF Len(d) = 0 THEN <<>>
    ELSE IF Len(d) = 1 THEN SaveItems(d) \o <<Opcode.SETITEM>>
    ELSE <<Opcode.MARK>> \o SaveItems(d) \o <<Opcode.SETITEMS>>

\* collections.OrderedDict, called with no argument
SaveClass ==
    <<Opcode.SHORT_BINUNICODE, 11, 99, 111, 108, 108, 101, 99, 116, 105, 111, 110, 115, Opcode.MEMOIZE,
      Opcode.SHORT_BINUNICODE, 11, 79, 114, 100, 101, 114, 101, 100, 68, 105, 99, 116, Opcode.MEMOIZE,
      Opcode.STACK_GLOBAL, Opcode.MEMOIZE, Opcode.EMPTY_TUPLE, Opcode.REDUCE, Opcode.MEMOIZE>>

Frame(d) == SaveClass \o SaveBatch(d) \o <<Opcode.STOP>>

\* pickle.dumps(d, pickle.HIGHEST_PROTOCOL) of an OrderedDict d
Pickle(d) == <<Opcode.PROTO, 5, Opcode.FRAME>> \o LittleEndian(Len(Frame(d)), 8) \o Frame(d)

LoadObject(b, p) ==
    IF b[p] = Opcode.NONE THEN [val |-> NoneValue, next |-> p + 1]
    ELSE IF b[p] = Opcode.BININT1 THEN [val |-> b[p + 1], next |-> p + 2]
    ELSE IF b[p] = Opcode.BININT2 THEN [val |-> FromLittleEndian(b, p + 1, 2), next |-> p + 3]
    ELSE [val |-> FromLittleEndian(b, p + 1, 4), next |-> p + 5]

RECURSIVE LoadItems(_, _, _)
LoadItems(b, p, d) ==
    IF b[p] \in {Opcode.SETITEM, Opcode.SETITEMS, Opcode.STOP} THEN d
    ELSE LET k == LoadObject(b, p)
             v == LoadObject(b, k.next)
         IN  LoadItems(b, v.next, Assign(d, k.val, v.val))

\* pickle.loads(b) of the pickle of an OrderedDict
Unpickle(b) ==
    LET p == 11 + Len(SaveClass) + 1
    IN  LoadItems(b, IF b[p] = Opcode.MARK THEN p + 1 ELSE p, <<>>)

\* ----------------------------------------------------------------- ghosts
\* What the last operation was: op(c, key, val), the instance's store and flag and
\* the file before it, what it returned (None for a method that returns nothing or
\* raised), the exception it raised ("" for none), whether it wrote the file, how
\* many times it called the loader, the instance's store and flag when the call
\* began (for a get_or_load that ran its loader, before the loader ran), and the
\* same of the operation before it.
Outcome(op, c, key, val, ret, err, wrote, calls) ==
    [op |-> op, c |-> c, key |-> key, val |-> val, ret |-> ret, err |-> err,
     wrote |-> wrote, calls |-> calls,
     pre |-> data[c], predirty |-> did_change[c], prefile |-> file,
     atcall |-> [data |-> data[c], dirty |-> did_change[c]],
     before |-> [op |-> last.op, c |-> last.c, key |-> last.key, ret |-> last.ret,
                 err |-> last.err, wrote |-> last.wrote, prelen |-> Len(last.pre),
                 predirty |-> last.predirty]]

\* one more call that runs no callback, in a process that has not exited; the
\* calls that are running load_value() stay as they are
Step ==
    /\ nops < MaxOps /\ nops' = nops + 1
    /\ ~shutdown.done /\ shutdown' = shutdown
    /\ loading' = loading

\* key k of instance c is read or written
Touch(c, k) == [touched EXCEPT ![c] = Append(SelectSeq(@, LAMBDA x : x # k), k)]

\* instance c is left with the store d
Forget(c, d) == [touched EXCEPT ![c] = SelectSeq(@, LAMBDA x : Has(d, x))]

\* ---------------------------------------------------------------- LRUCache
\* pickle.Pickler(buf, protocol=pickle.HIGHEST_PROTOCOL).dump(d); buf.tell()
bytesize(d) == Len(Pickle(d))

FitsBeforeDump(size, max) == 0 < max

\* the test that ends trim's loop
Fits(size, max) == size < max

RECURSIVE trim_loop(_, _, _, _)
\* trim's loop, from the store d, the keys left in sorted_keys and the count so far:
\* the store and the count when the loop ends, by break or by pop(0) of an empty list
trim_loop(d, sorted_keys, count, max) ==
    IF Fits(bytesize(d), max) THEN [data |-> d, count |-> count, err |-> ""]
    ELSE IF sorted_keys = <<>> THEN [data |-> d, count |-> count, err |-> "IndexError"]
    ELSE trim_loop(Remove(d, Head(sorted_keys)), Tail(sorted_keys), count + 1, max)

TrimmedEvictFirst(d, max) ==
    IF d = <<>> THEN trim_loop(d, <<>>, 0, max)
    ELSE trim_loop(Tail(d), Tail(KeyList(d)), 1, max)

\* trim, from its first line to the end of its loop
Trimmed(d, max) == trim_loop(d, KeyList(d), 0, max)

containsPromotes(c, key) ==
    /\ c \in alive /\ Step
    /\ data' = [data EXCEPT ![c] = IF Has(@, key) THEN MoveToEnd(@, key) ELSE @]
    /\ touched' = IF Has(data[c], key) THEN Touch(c, key) ELSE touched
    /\ last' = Outcome("contains", c, key, NoneValue, IF Has(data[c], key) THEN 1 ELSE 0, "", FALSE, 0)
    /\ UNCHANGED <<alive, did_change, max_bytesize, caches_to_close_atexit, file>>

contains(c, key) ==
    /\ c \in alive /\ Step
    /\ last' = Outcome("contains", c, key, NoneValue, IF Has(data[c], key) THEN 1 ELSE 0, "", FALSE, 0)
    /\ UNCHANGED <<alive, data, did_change, max_bytesize, caches_to_close_atexit, file, touched>>

\* __getitem__ (default None) and get
Read(op, c, key, default) ==
    /\ c \in alive /\ Step
    /\ IF ~Has(data[c], key)
       THEN /\ last' = Outcome(op, c, key, NoneValue, default, "", FALSE, 0)
            /\ UNCHANGED <<data, did_change, touched>>
       ELSE /\ did_change' = [did_change EXCEPT ![c] = TRUE]
            /\ data' = [data EXCEPT ![c] = MoveToEnd(@, key)]
            /\ touched' = Touch(c, key)
            /\ last' = Outcome(op, c, key, NoneValue, Lookup(data[c], key, default), "", FALSE, 0)
    /\ UNCHANGED <<alive, max_bytesize, caches_to_close_atexit, file>>

getitem(c, key) == Read("getitem", c, key, NoneValue)

get(c, key, default) == Read("get", c, key, default)

setitem(c, key, value) ==
    /\ c \in alive /\ Step
    /\ did_change' = [did_change EXCEPT ![c] = TRUE]
    /\ data' = [data EXCEPT ![c] = MoveToEnd(Assign(@, key, value), key)]
    /\ touched' = Touch(c, key)
    /\ last' = Outcome("set", c, key, value, NoneValue, "", FALSE, 0)
    /\ UNCHANGED <<alive, max_bytesize, caches_to_close_atexit, file>>

delitemSilent(c, key) ==
    /\ c \in alive /\ Step
    /\ did_change' = [did_change EXCEPT ![c] = TRUE]
    /\ data' = [data EXCEPT ![c] = Remove(@, key)]
    /\ last' = Outcome("delete", c, key, NoneValue, NoneValue, "", FALSE, 0)
    /\ touched' = Forget(c, data'[c])
    /\ UNCHANGED <<alive, max_bytesize, caches_to_close_atexit, file>>

delitem(c, key) ==
    /\ c \in alive /\ Step
    /\ did_change' = [did_change EXCEPT ![c] = TRUE]
    /\ IF Has(data[c], key)
       THEN /\ data' = [data EXCEPT ![c] = Remove(@, key)]
            /\ last' = Outcome("delete", c, key, NoneValue, NoneValue, "", FALSE, 0)
       ELSE /\ data' = data
            /\ last' = Outcome("delete", c, key, NoneValue, NoneValue, "KeyError", FALSE, 0)
    /\ touched' = Forget(c, data'[c])
    /\ UNCHANGED <<alive, max_bytesize, caches_to_close_atexit, file>>

clearKeepsFlag(c) ==
    /\ c \in alive /\ Step
    /\ data' = [data EXCEPT ![c] = <<>>]
    /\ last' = Outcome("clear", c, 0, NoneValue, NoneValue, "", FALSE, 0)
    /\ touched' = Forget(c, data'[c])
    /\ UNCHANGED <<alive, did_change, max_bytesize, caches_to_close_atexit, file>>

clear(c) ==
    /\ c \in alive /\ Step
    /\ did_change' = [did_change EXCEPT ![c] = TRUE]
    /\ data' = [data EXCEPT ![c] = <<>>]
    /\ last' = Outcome("clear", c, 0, NoneValue, NoneValue, "", FALSE, 0)
    /\ touched' = Forget(c, data'[c])
    /\ UNCHANGED <<alive, max_bytesize, caches_to_close_atexit, file>>

trim(c) ==
    /\ c \in alive /\ Step
    /\ \E r \in {Trimmed(data[c], max_bytesize[c])} :
           /\ data' = [data EXCEPT ![c] = r.data]
           /\ did_change' = [did_change EXCEPT ![c] = @ \/ r.count > 0]
           /\ last' = Outcome("trim", c, 0, NoneValue,
                              IF r.err = "" THEN r.count ELSE NoneValue, r.err, FALSE, 0)
    /\ touched' = Forget(c, data'[c])
    /\ UNCHANGED <<alive, max_bytesize, caches_to_close_atexit, file>>

GetOrLoadNoneIsMiss(op, c, key) ==
    /\ c \in alive
    /\ IF Has(data[c], key) /\ Lookup(data[c], key, NoneValue) # NoneValue
       THEN /\ Step
            /\ did_change' = [did_change EXCEPT ![c] = TRUE]
            /\ data' = [data EXCEPT ![c] = MoveToEnd(@, key)]
            /\ touched' = Touch(c, key)
            /\ last' = Outcome(op, c, key, NoneValue, Lookup(data[c], key, NoneValue), "", FALSE, 0)
       ELSE /\ nops < MaxOps /\ nops' = nops + 1
            /\ ~shutdown.done /\ Len(loading) < MaxDepth
            /\ loading' = <<[op |-> op, c |-> c, key |-> key,
                             data |-> data[c], dirty |-> did_change[c]]>> \o loading
            /\ UNCHANGED <<data, did_change, touched, last, shutdown>>
    /\ UNCHANGED <<alive, max_bytesize, caches_to_close_atexit, file>>

\* get_or_load up to its call of load_value(): a hit is promoted and returned; on
\* a miss load_value() starts, and until it returns or raises the caller's code
\* runs, which may call any method of the instance, get_or_load included
GetOrLoad(op, c, key) ==
    /\ c \in alive
    /\ IF Has(data[c], key)
       THEN /\ Step
            /\ did_change' = [did_change EXCEPT ![c] = TRUE]
            /\ data' = [data EXCEPT ![c] = MoveToEnd(@, key)]
            /\ touched' = Touch(c, key)
            /\ last' = Outcome(op, c, key, NoneValue, Lookup(data[c], key, NoneValue), "", FALSE, 0)
       ELSE /\ nops < MaxOps /\ nops' = nops + 1
            /\ ~shutdown.done /\ Len(loading) < MaxDepth
            /\ loading' = <<[op |-> op, c |-> c, key |-> key,
                             data |-> data[c], dirty |-> did_change[c]]>> \o loading
            /\ UNCHANGED <<data, did_change, touched, last, shutdown>>
    /\ UNCHANGED <<alive, max_bytesize, caches_to_close_atexit, file>>

get_or_load(c, key) == GetOrLoad("get_or_load", c, key)

\* the function __call__ returns, called with the arguments that make key: it is
\* get_or_load(key, lambda: func(*args, **kwds))
inner(c, key) == GetOrLoad("call", c, key)

\* the innermost load_value() returns loaded: get_or_load marks the instance
\* changed, assigns the value to its key and returns it
load_value_returns(loaded) ==
    /\ loading # <<>> /\ ~shutdown.done
    /\ \E f \in {Head(loading)} :
           /\ did_change' = [did_change EXCEPT ![f.c] = TRUE]
           /\ data' = [data EXCEPT ![f.c] = Assign(@, f.key, loaded)]
           /\ touched' = Touch(f.c, f.key)
           /\ last' = [Outcome(f.op, f.c, f.key, loaded, loaded, "", FALSE, 1)
                           EXCEPT !.atcall = [data |-> f.data, dirty |-> f.dirty]]
    /\ loading' = Tail(loading)
    /\ UNCHANGED <<alive, max_bytesize, caches_to_close_atexit, file, nops, shutdown>>

load_value_raisesMarks ==
    /\ loading # <<>> /\ ~shutdown.done
    /\ \E f \in {Head(loading)} :
           /\ did_change' = [did_change EXCEPT ![f.c] = TRUE]
           /\ last' = [Outcome(f.op, f.c, f.key, NoneValue, NoneValue, "LoaderError", FALSE, 1)
                           EXCEPT !.atcall = [data |-> f.data, dirty |-> f.dirty]]
    /\ loading' = Tail(loading)
    /\ UNCHANGED <<alive, data, touched, max_bytesize, caches_to_close_atexit, file, nops, shutdown>>

\* the innermost load_value() raises: the exception leaves get_or_load
load_value_raises ==
    /\ loading # <<>> /\ ~shutdown.done
    /\ \E f \in {Head(loading)} :
           /\ did_change' = did_change
           /\ last' = [Outcome(f.op, f.c, f.key, NoneValue, NoneValue, "LoaderError", FALSE, 1)
                           EXCEPT !.atcall = [data |-> f.data, dirty |-> f.dirty]]
    /\ loading' = Tail(loading)
    /\ UNCHANGED <<alive, data, touched, max_bytesize, caches_to_close_atexit, file, nops, shutdown>>

\* ------------------------------------------------------ PersistentLRUCache
loadNewestFirst(f) ==
    IF f = NoFile THEN <<>>
    ELSE LET d == Unpickle(f) IN [i \in 1..Len(d) |-> d[Len(d) + 1 - i]]

\* _load: the store of a new instance
load(f) == IF f = NoFile THEN <<>> ELSE Update(<<>>, Unpickle(f))

\* PersistentLRUCache(filename, max_bytesize=max, close_on_exit=close_on_exit)
init(c, max, close_on_exit) ==
    /\ c \notin alive /\ Step
    /\ alive' = alive \cup {c}
    /\ max_bytesize' = [max_bytesize EXCEPT ![c] = max]
    /\ data' = [data EXCEPT ![c] = load(file)]
    /\ did_change' = [did_change EXCEPT ![c] = FALSE]
    /\ caches_to_close_atexit' =
           IF close_on_exit THEN caches_to_close_atexit \cup {c} ELSE caches_to_close_atexit
    /\ touched' = [touched EXCEPT ![c] = KeyList(IF file = NoFile THEN <<>> ELSE Unpickle(file))]
    /\ last' = Outcome("init", c, 0, NoneValue, NoneValue, "", FALSE, 0)
    /\ UNCHANGED file

NothingToSaveNever(c) == FALSE

\* save's test of "no changes to save"
NothingToSave(c) == did_change[c] = FALSE

SaveThenTrim(op, c) ==
    /\ c \in alive /\ Step
    /\ IF NothingToSave(c)
       THEN /\ last' = Outcome(op, c, 0, NoneValue, NoneValue, "", FALSE, 0)
            /\ UNCHANGED <<data, did_change, file, touched>>
       ELSE \E r \in {Trimmed(data[c], max_bytesize[c])} :
                /\ data' = [data EXCEPT ![c] = r.data]
                /\ did_change' = [did_change EXCEPT ![c] = @ \/ r.count > 0]
                /\ file' = Pickle(data[c])
                /\ last' = Outcome(op, c, 0, NoneValue, NoneValue, r.err, TRUE, 0)
                /\ touched' = Forget(c, r.data)
    /\ UNCHANGED <<alive, max_bytesize, caches_to_close_atexit>>

SaveMerging(op, c) ==
    /\ c \in alive /\ Step
    /\ IF NothingToSave(c)
       THEN /\ last' = Outcome(op, c, 0, NoneValue, NoneValue, "", FALSE, 0)
            /\ UNCHANGED <<data, did_change, file, touched>>
       ELSE \E r \in {Trimmed(data[c], max_bytesize[c])} :
                /\ data' = [data EXCEPT ![c] = r.data]
                /\ did_change' = [did_change EXCEPT ![c] = @ \/ r.count > 0]
                /\ file' = IF r.err = "" THEN Pickle(Update(load(file), r.data)) ELSE file
                /\ last' = Outcome(op, c, 0, NoneValue, NoneValue, r.err, r.err = "", 0)
                /\ touched' = Forget(c, r.data)
    /\ UNCHANGED <<alive, max_bytesize, caches_to_close_atexit>>

\* save, and close, which calls it
Save(op, c) ==
    /\ c \in alive /\ Step
    /\ IF NothingToSave(c)
       THEN /\ last' = Outcome(op, c, 0, NoneValue, NoneValue, "", FALSE, 0)
            /\ UNCHANGED <<data, did_change, file, touched>>
       ELSE \E r \in {Trimmed(data[c], max_bytesize[c])} :
                /\ data' = [data EXCEPT ![c] = r.data]
                /\ did_change' = [did_change EXCEPT ![c] = @ \/ r.count > 0]
                /\ file' = IF r.err = "" THEN Pickle(r.data) ELSE file
                /\ last' = Outcome(op, c, 0, NoneValue, NoneValue, r.err, r.err = "", 0)
                /\ touched' = Forget(c, r.data)
    /\ UNCHANGED <<alive, max_bytesize, caches_to_close_atexit>>

save(c) == Save("save", c)

close(c) == Save("close", c)

\* the last reference to instance c is dropped: the WeakSet forgets it
discard(c) ==
    /\ c \in alive /\ Step
    /\ alive' = alive \ {c}
    /\ caches_to_close_atexit' = caches_to_close_atexit \ {c}
    /\ data' = [data EXCEPT ![c] = <<>>]
    /\ did_change' = [did_change EXCEPT ![c] = FALSE]
    /\ touched' = [touched EXCEPT ![c] = <<>>]
    /\ last' = Outcome("discard", c, 0, NoneValue, NoneValue, "", FALSE, 0)
    /\ UNCHANGED <<max_bytesize, file>>

\* the orders in which a set may be iterated
Orders(S) ==
    { o \in [1..Cardinality(S) -> S] : \A i, j \in 1..Cardinality(S) : o[i] = o[j] => i = j }

RECURSIVE close_each(_, _)
\* the loop of _close_atexit over the instances of order, from the state st: each
\* cache.close() saves as Save does, and an exception of one ends the loop
close_each(order, st) ==
    IF order = <<>> \/ st.err # "" THEN st
    ELSE LET c == Head(order)
             r == Trimmed(st.data[c], max_bytesize[c])
         IN  close_each(Tail(order),
                 IF st.did_change[c] = FALSE
                 THEN [st EXCEPT !.closes[c] = @ + 1]
                 ELSE [st EXCEPT !.closes[c] = @ + 1,
                                 !.data[c] = r.data,
                                 !.did_change[c] = @ \/ r.count > 0,
                                 !.file = IF r.err = "" THEN Pickle(r.data) ELSE @,
                                 !.wrote = IF r.err = "" THEN @ \cup {c} ELSE @,
                                 !.err = r.err])

\* the process exits: atexit runs _close_atexit once
close_atexit ==
    /\ ~shutdown.done
    /\ \E order \in Orders(caches_to_close_atexit) :
           \E st \in {close_each(order, [data |-> data, did_change |-> did_change, file |-> file,
                                       closes |-> [c \in Caches |-> 0], wrote |-> {}, err |-> ""])} :
               /\ data' = st.data
               /\ did_change' = st.did_change
               /\ file' = st.file
               /\ shutdown' = [done |-> TRUE, closes |-> st.closes, wrote |-> st.wrote,
                               err |-> st.err, dirty |-> {c \in alive : did_change[c]}]
               /\ last' = Outcome("exit", 1, 0, NoneValue, NoneValue, st.err, st.wrote # {}, 0)
    /\ touched' = [c \in Caches |-> SelectSeq(touched[c], LAMBDA x : Has(data'[c], x))]
    /\ UNCHANGED <<alive, max_bytesize, caches_to_close_atexit, nops, loading>>

\* ---------------------------------------------------------- specifications
NoOutcome ==
    [op |-> "none", c |-> 1, key |-> 0, val |-> NoneValue, ret |-> NoneValue, err |-> "",
     wrote |-> FALSE, calls |-> 0, pre |-> <<>>, predirty |-> FALSE, prefile |-> NoFile,
     atcall |-> [data |-> <<>>, dirty |-> FALSE],
     before |-> [op |-> "none", c |-> 1, key |-> 0, ret |-> NoneValue, err |-> "",
                 wrote |-> FALSE, prelen |-> 0, predirty |-> FALSE]]

\* the process has not exited
Running ==
    [done |-> FALSE, closes |-> [c \in Caches |-> 0], wrote |-> {}, err |-> "", dirty |-> {}]

\* The stores of n items: the keys are interchangeable (every key of the model
\* pickles to two bytes and no operation compares keys but for equality), so the
\* keys are numbered 1..n from the oldest to the newest; the values are any.
StoresOf(n) == { [i \in 1..n |-> <<i, v[i]>>] : v \in [1..n -> Values] }

\* The stores an earlier run of the program may have saved, under Spec.
PriorStores == StoresOf(2)

\* The process starts: no instance yet, and at filename no file or the file an
\* earlier run saved.
Init ==
    /\ alive = {}
    /\ data = [c \in Caches |-> <<>>]
    /\ did_change = [c \in Caches |-> FALSE]
    /\ max_bytesize = [c \in Caches |-> DEFAULT_MAX_BYTESIZE]
    /\ caches_to_close_atexit = {}
    /\ file \in {NoFile} \cup {Pickle(d) : d \in PriorStores}
    /\ last = NoOutcome
    /\ touched = [c \in Caches |-> <<>>]
    /\ nops = 0
    /\ shutdown = Running
    /\ loading = <<>>

\* the arguments an instance is constructed with under Spec
Constructions ==
    { [max |-> SmallBudget, close_on_exit |-> TRUE],
      [max |-> DEFAULT_MAX_BYTESIZE, close_on_exit |-> FALSE] }

\* the operations on instance c
Ops(c) ==
    \/ \E a \in Constructions : init(c, a.max, a.close_on_exit)
    \/ \E key \in Keys : contains(c, key)
    \/ \E key \in Keys : getitem(c, key)
    \/ \E key \in Keys, default \in {NoneValue, 0} : get(c, key, default)
    \/ \E key \in Keys, value \in Values : setitem(c, key, value)
    \/ \E key \in Keys : delitem(c, key)
    \/ clear(c)
    \/ trim(c)
    \/ \E key \in Keys : get_or_load(c, key)
    \/ \E loaded \in Values : load_value_returns(loaded)
    \/ load_value_raises
    \/ save(c)
    \/ close(c)

\* one instance, from the start of the process
Next == Ops(1)

Spec == Init /\ [][Next]_vars

\* Instance 1 in any state its operations lead to, with two operations left: any
\* store, any budget, and either unchanged since it was loaded from the file or
\* changed with no file written yet.
InitAny ==
    /\ alive = {1}
    /\ \E n \in 0..MaxItems : \E d \in StoresOf(n) :
           data = [c \in Caches |-> IF c = 1 THEN d ELSE <<>>]
    /\ did_change \in [Caches -> BOOLEAN] /\ ~did_change[2]
    /\ \E max \in Budgets : max_bytesize = [c \in Caches |-> IF c = 1 THEN max ELSE DEFAULT_MAX_BYTESIZE]
    /\ caches_to_close_atexit = {1}
    /\ file = IF did_change[1] THEN NoFile ELSE Pickle(data[1])
    /\ last = NoOutcome
    /\ touched = [c \in Caches |-> KeyList(data[c])]
    /\ nops = MaxOps - 2
    /\ shutdown = Running
    /\ loading = <<>>

\* trimming and saving instance 1, and constructing instance 2 on the same file
NextTrim ==
    \/ trim(1)
    \/ save(1)
    \/ close(1)
    \/ init(2, DEFAULT_MAX_BYTESIZE, TRUE)

TrimSpec == InitAny /\ [][NextTrim]_vars

\* the stores of at most n items, of any keys in any order
StoresUpTo(n) ==
    UNION { { d \in [1..m -> Keys \X Values] : \A i, j \in 1..m : d[i][1] = d[j][1] => i = j }
            : m \in 0..n }

\* Two instances on the same filename, no file written yet, two operations left
\* before the process exits: instance 1 holds the keys 1..n and instance 2 any
\* keys, each is dirty if it holds an item, and each was constructed with
\* close_on_exit or without.
InitShared ==
    /\ alive = Caches
    /\ \E n \in 0..MaxHeld : \E d1 \in StoresOf(n) : \E d2 \in StoresUpTo(MaxOther) :
           data = [c \in Caches |-> IF c = 1 THEN d1 ELSE d2]
    /\ did_change \in [Caches -> BOOLEAN]
    /\ \A c \in Caches : data[c] # <<>> => did_change[c]
    /\ \E m1 \in {MinBudget, SmallBudget, DEFAULT_MAX_BYTESIZE} :
           max_bytesize = [c \in Caches |-> IF c = 1 THEN m1 ELSE DEFAULT_MAX_BYTESIZE]
    /\ caches_to_close_atexit \in SUBSET Caches
    /\ file = NoFile
    /\ last = NoOutcome
    /\ touched = [c \in Caches |-> KeyList(data[c])]
    /\ nops = MaxOps - 2
    /\ shutdown = Running
    /\ loading = <<>>

\* saving and dropping the two instances, and the exit of the process
NextShared ==
    \/ \E c \in Caches : save(c)
    \/ \E c \in Caches : close(c)
    \/ \E c \in Caches : discard(c)
    \/ close_atexit

SharedSpec == InitShared /\ [][NextShared]_vars

\* LRUCache(): one instance that is not persistent, with the default budget
InitLoader ==
    /\ alive = {1}
    /\ data = [c \in Caches |-> <<>>]
    /\ did_change = [c \in Caches |-> FALSE]
    /\ max_bytesize = [c \in Caches |-> DEFAULT_MAX_BYTESIZE]
    /\ caches_to_close_atexit = {}
    /\ file = NoFile
    /\ last = NoOutcome
    /\ touched = [c \in Caches |-> <<>>]
    /\ nops = 0
    /\ shutdown = Running
    /\ loading = <<>>

\* get_or_load and the memoized functions of the instance, with loaders that may
\* read, write and delete items of the instance and call get_or_load again
NextLoader ==
    \/ \E key \in Keys : get_or_load(1, key)
    \/ \E key \in Keys : inner(1, key)
    \/ \E loaded \in Values : load_value_returns(loaded)
    \/ load_value_raises
    \/ \E key \in Keys, value \in Values : setitem(1, key, value)
    \/ \E key \in Keys : getitem(1, key)
    \/ \E key \in Keys : delitem(1, key)

LoaderSpec == InitLoader /\ [][NextLoader]_vars

\* ------------------------------------------------------------------ claims
\* the store d without its k oldest items
Suffix(d, k) == SubSeq(d, k + 1, Len(d))

LastKey(d) == d[Len(d)][1]

Saved == last.op \in {"save", "close"}

\* get_or_load, called directly or by a memoized function
Loads == {"get_or_load", "call"}

\* the last operation read or wrote its key, and the key was or became present
Promoted ==
    /\ last.err = ""
    /\ \/ last.op \in {"set", "get_or_load", "call"}
       \/ last.op \in {"get", "getitem"} /\ Has(last.pre, last.key)

\* C1: the keys of a store iterate from the one read or written longest ago to the
\* latest, so the last key is the most recently touched key still present; and
\* after a set, a get that hit or a get_or_load on key k, k is the last key.
C1_MostRecentLast ==
    \A c \in alive :
        /\ KeyList(data[c]) = touched[c]
        /\ (last.c = c /\ Promoted) => (data[c] # <<>> /\ LastKey(data[c]) = last.key)

\* C2: after a trim() that returns, the footprint of the store is at most
\* max_bytesize, or the store is empty.
C2_TrimBound ==
    (last.op = "trim" /\ last.err = "") =>
        (bytesize(data[last.c]) <= max_bytesize[last.c] \/ data[last.c] = <<>>)

\* a trim() evicted and returned with items left
C2_Witness ==
    /\ last.op = "trim" /\ last.err = ""
    /\ last.ret >= 1
    /\ data[last.c] # <<>>

\* C3: a trim() that returns k removed exactly the k oldest keys and left the rest
\* as they were; and of four items that exceed the budget, the last three of which
\* fit it (their footprint is at most max_bytesize), trim() removes only the
\* oldest and returns 1.
C3_OldestFirst ==
    last.op = "trim" =>
      LET c == last.c IN
        /\ last.err = "" =>
              /\ last.ret \in 0..Len(last.pre)
              /\ data[c] = Suffix(last.pre, last.ret)
        /\ ( /\ Len(last.pre) = 4
             /\ bytesize(last.pre) > max_bytesize[c]
             /\ bytesize(Tail(last.pre)) <= max_bytesize[c] ) =>
              (last.err = "" /\ last.ret = 1 /\ data[c] = Tail(last.pre))

\* the number of oldest items to remove from d to bring its footprint to at most max
LeastEvictions(d, max) ==
    CHOOSE k \in 0..Len(d) :
        /\ bytesize(Suffix(d, k)) <= max
        /\ \A j \in 0..(k - 1) : bytesize(Suffix(d, j)) > max

\* C4: a trim() that returns has evicted the smallest number of oldest items that
\* brings the footprint to at most max_bytesize; it evicts none when the footprint
\* equals max_bytesize.
C4_StopsWithinBudget ==
    (last.op = "trim" /\ last.err = "") =>
        /\ last.ret = LeastEvictions(last.pre, max_bytesize[last.c])
        /\ bytesize(last.pre) = max_bytesize[last.c] => last.ret = 0

\* C5: trim() returns, after at most len(entries) evictions; with max_bytesize
\* below the footprint of the empty store it empties the store and returns the count.
C5_TrimTerminates ==
    last.op = "trim" =>
        /\ last.err = ""
        /\ last.ret \in 0..Len(last.pre)
        /\ max_bytesize[last.c] < bytesize(<<>>) =>
               (data[last.c] = <<>> /\ last.ret = Len(last.pre))

\* a trim() right after a trim() of the same instance that returned
SecondTrim ==
    /\ last.op = "trim" /\ last.before.op = "trim"
    /\ last.before.c = last.c /\ last.before.err = ""

\* C6: a trim() right after a trim() that returned evicts nothing and leaves the
\* items, their order and the dirty flag as they were.
C6_TrimIdempotent ==
    SecondTrim =>
        /\ last.err = "" /\ last.ret = 0
        /\ data[last.c] = last.pre
        /\ did_change[last.c] = last.predirty

\* the second of two trims, the first of which evicted
C6_Witness == SecondTrim /\ last.before.ret >= 1 /\ data[last.c] # <<>>

\* C7: after a save() or close() that wrote the file the dirty flag is false, and
\* a save() or close() right after it writes nothing.
C7_SaveClearsDirty ==
    /\ (Saved /\ last.wrote) => ~did_change[last.c]
    /\ ( /\ Saved /\ last.before.op \in {"save", "close"}
         /\ last.before.c = last.c /\ last.before.wrote ) => ~last.wrote

\* C8: save() with the dirty flag false writes nothing and trims nothing: the
\* file, the items, their order and the flag are as they were.
C8_CleanSaveIsNoOp ==
    (Saved /\ ~last.predirty) =>
        /\ ~last.wrote /\ last.err = ""
        /\ file = last.prefile
        /\ data[last.c] = last.pre
        /\ ~did_change[last.c]

\* a save() of a store that was loaded, is unchanged and is over its budget
C8_Witness ==
    /\ last.op = "save" /\ ~last.predirty
    /\ last.prefile # NoFile
    /\ bytesize(last.pre) > max_bytesize[last.c]

\* C9: the dirty flag is true after every set, delete, clear, get that hit and
\* get_or_load that did not raise, and after every trim that evicted.
C9_MutationsMarkDirty ==
    ( \/ Promoted
      \/ last.err = "" /\ last.op \in {"delete", "clear"}
      \/ last.op \in {"trim", "save", "close"} /\ Len(data[last.c]) < Len(last.pre) )
    => did_change[last.c]

\* a get hit on a store that was unchanged since its load
C9_Witness ==
    /\ last.op = "get" /\ Has(last.pre, last.key)
    /\ ~last.predirty

\* an instance constructed right after another instance's save() wrote the file
LoadedAfterSave ==
    /\ last.op = "init" /\ last.before.op \in {"save", "close"}
    /\ last.before.wrote /\ last.before.c # last.c

\* C10: a save() of a changed store S that succeeds leaves S without the oldest
\* items trim evicted, and an instance constructed on the file right after it has
\* the same keys, values and order, with the dirty flag false.
C10_RoundTrip ==
    /\ (Saved /\ last.predirty /\ last.wrote) =>
           \E k \in 0..Len(last.pre) : data[last.c] = Suffix(last.pre, k)
    /\ LoadedAfterSave =>
           /\ data[last.c] = data[last.before.c]
           /\ Len(data[last.c]) <= last.before.prelen
           /\ ~did_change[last.c]

\* the instance loaded two or more items, after a save() that evicted
C10_Witness ==
    /\ LoadedAfterSave
    /\ Len(data[last.c]) >= 2
    /\ Len(data[last.c]) < last.before.prelen

\* C11: a get_or_load on an absent key calls the loader exactly once, stores what
\* it returned under the key and returns it; a get_or_load on a present key calls
\* the loader zero times and returns the stored value, None included; so a
\* get_or_load that finds the key a get_or_load has just stored returns the same.
C11_LoadOnceOnMiss ==
    (last.op \in Loads /\ last.err = "") =>
        /\ IF Has(last.atcall.data, last.key)
           THEN last.calls = 0 /\ last.ret = Lookup(last.atcall.data, last.key, 0)
           ELSE /\ last.calls = 1 /\ last.ret = last.val
                /\ Has(data[last.c], last.key)
                /\ Lookup(data[last.c], last.key, 0) = last.val
        /\ (Has(last.atcall.data, last.key) /\ last.before.op \in Loads /\ last.before.err = ""
                /\ last.before.c = last.c /\ last.before.key = last.key)
               => last.ret = last.before.ret

\* a get_or_load stored None under a new key, and the next get_or_load on the key
\* returned None without calling its loader
C11_Witness ==
    /\ last.op \in Loads /\ last.before.op \in Loads
    /\ last.before.key = last.key /\ last.before.err = ""
    /\ Len(last.pre) = last.before.prelen + 1
    /\ last.calls = 0 /\ last.ret = NoneValue

\* C12 as stated: when the loader of a get_or_load on an absent key raises, the
\* caller gets the exception and the key is still absent: the items, their order
\* and the dirty flag are as they were before the call.
C12_LoaderFailureLeavesNoTrace ==
    (last.op \in Loads /\ last.err = "LoaderError")
        => /\ ~Has(data[last.c], last.key)
           /\ data[last.c] = last.atcall.data
           /\ did_change[last.c] = last.atcall.dirty

\* C12, amended: when the loader of a get_or_load on an absent key raises, the
\* caller gets the exception and get_or_load itself stores nothing and leaves the
\* dirty flag alone: the items, their order, the flag and the file are as the
\* loader left them; so when the loader changed nothing, the key is still absent
\* and all is as before the call.
C12_FailedLoadStoresNothing ==
    (last.op \in Loads /\ last.err = "LoaderError")
        => /\ ~Has(last.atcall.data, last.key) /\ last.calls = 1
           /\ data[last.c] = last.pre
           /\ did_change[last.c] = last.predirty
           /\ file = last.prefile
           /\ (last.pre = last.atcall.data /\ last.predirty = last.atcall.dirty)
                  => (~Has(data[last.c], last.key) /\ data[last.c] = last.atcall.data
                      /\ did_change[last.c] = last.atcall.dirty)

\* a loader raised that had left the store as it found it, two items and not dirty
C12_Witness ==
    /\ last.op = "get_or_load" /\ last.err = "LoaderError"
    /\ last.pre = last.atcall.data /\ ~last.predirty /\ Len(last.pre) = 2

\* C13: deleting an absent key raises KeyError and leaves the items, their values
\* and their order as they were.
C13_DeleteAbsentRaises ==
    (last.op = "delete" /\ ~Has(last.pre, last.key))
        => (last.err = "KeyError" /\ data[last.c] = last.pre)

\* an absent key was deleted from a store of two items
C13_Witness ==
    /\ last.op = "delete" /\ ~Has(last.pre, last.key) /\ Len(last.pre) = 2

\* C14: a membership test on any key, and a get or a subscript read of an absent
\* key, change neither the items, nor their order, nor the dirty flag, nor the file.
C14_PureReads ==
    (\/ last.op = "contains"
     \/ last.op \in {"get", "getitem"} /\ ~Has(last.pre, last.key))
        => /\ last.err = ""
           /\ data[last.c] = last.pre
           /\ did_change[last.c] = last.predirty
           /\ file = last.prefile

\* a membership test found a key that was not the last one, in a store that was not dirty
C14_Witness ==
    /\ last.op = "contains" /\ last.ret = 1
    /\ LastKey(last.pre) # last.key
    /\ ~last.predirty

\* C15: constructing an instance when filename has no file raises nothing and
\* gives an empty store that is not dirty; a save or a close right after the
\* construction writes no file.
C15_FreshStart ==
    /\ (last.op = "init" /\ last.prefile = NoFile)
           => (last.err = "" /\ data[last.c] = <<>> /\ ~did_change[last.c] /\ file = NoFile)
    /\ (Saved /\ last.before.op = "init" /\ last.before.c = last.c /\ last.prefile = NoFile)
           => (~last.wrote /\ file = NoFile /\ last.err = "")

\* an instance was constructed with no file, then closed
C15_Witness ==
    /\ last.op = "close" /\ last.before.op = "init" /\ last.prefile = NoFile
    /\ last.pre = <<>> /\ ~last.predirty

\* C19: a delete that raises KeyError leaves the dirty flag as it was, so a save
\* right after such a delete on an instance that was not dirty writes no file.
C19_FailedDeleteKeepsFlag ==
    /\ (last.op = "delete" /\ last.err = "KeyError") => (did_change[last.c] = last.predirty)
    /\ (Saved /\ last.before.op = "delete" /\ last.before.err = "KeyError"
            /\ last.before.c = last.c /\ ~last.before.predirty)
           => ~last.wrote

\* the items of the store d but the one of key k, in order
Others(d, k) == SelectSeq(d, LAMBDA e : e[1] # k)

\* C20 as stated: a set, a get, a subscript read, a get_or_load or a delete of key
\* k leaves every other key with its value and the other keys in their order as
\* they were before the call, adding and removing none of them; and a delete that
\* returns has removed k.
C20_OthersKeepOrder ==
    (last.op \in {"set", "get", "getitem", "delete"} \cup Loads)
        => /\ Others(data[last.c], last.key) = Others(last.atcall.data, last.key)
           /\ (last.op = "delete" /\ last.err = "")
                  => (Has(last.pre, last.key) /\ ~Has(data[last.c], last.key))

\* C20, amended: a set, a get, a subscript read or a delete of key k, and what
\* get_or_load does itself on key k once its loader has finished, leave every
\* other key with its value and the other keys in their order, adding and
\* removing none of them; a delete that returns has removed k; and a promotion of
\* a present key keeps the number of items.
C20_OwnEffectOnKeyOnly ==
    (last.op \in {"set", "get", "getitem", "delete"} \cup Loads)
        => /\ Others(data[last.c], last.key) = Others(last.pre, last.key)
           /\ (last.op = "delete" /\ last.err = "")
                  => (Has(last.pre, last.key) /\ ~Has(data[last.c], last.key))
           /\ (Promoted /\ Has(last.pre, last.key))
                  => Len(data[last.c]) = Len(last.pre)
           /\ (last.pre = last.atcall.data)
                  => Others(data[last.c], last.key) = Others(last.atcall.data, last.key)

\* the oldest of three keys was set again
C20_Witness ==
    /\ last.op = "set" /\ Len(last.pre) = 3
    /\ last.pre[1][1] = last.key
    /\ data[last.c] # last.pre

\* C17: when a save or a close has written the file, the footprint of the items
\* in the file is at most max_bytesize, or the file holds no item; and it is the
\* footprint of the items of the instance once the call has returned.
C17_FileWithinBudget ==
    (Saved /\ last.wrote) =>
        /\ file # NoFile
        /\ \/ bytesize(Unpickle(file)) <= max_bytesize[last.c]
           \/ Unpickle(file) = <<>>
        /\ bytesize(Unpickle(file)) = bytesize(data[last.c])
        /\ Len(file) = bytesize(data[last.c])

\* a save evicted some items, not all of them, and wrote the file
C17_Witness ==
    /\ last.op = "save" /\ last.wrote
    /\ Len(data[last.c]) < Len(last.pre)
    /\ data[last.c] # <<>>

\* C16: when the process has exited, every instance constructed with close_on_exit
\* and still referenced got exactly one close() from _close_atexit, and if it was
\* dirty it wrote the file; every instance constructed without close_on_exit got
\* no close() and wrote nothing.
C16_ExitClosesRegistered ==
    shutdown.done =>
        \A c \in alive :
            IF c \in caches_to_close_atexit
            THEN shutdown.closes[c] = 1 /\ (c \in shutdown.dirty => c \in shutdown.wrote)
            ELSE shutdown.closes[c] = 0 /\ c \notin shutdown.wrote

\* C18: when the two instances have saved one after the other, each writing the
\* file, the file holds the items of the instance that saved last, as its trim
\* left them, and no key that only the other instance holds.
C18_LastWriterWins ==
    (Saved /\ last.wrote /\ last.before.op \in {"save", "close"} /\ last.before.wrote
        /\ last.before.c # last.c)
        => /\ Unpickle(file) = data[last.c]
           /\ \A k \in Keys : \A c \in Caches \ {last.c} :
                  (Has(data[c], k) /\ ~Has(data[last.c], k)) => ~Has(Unpickle(file), k)

\* both instances saved, and the one that saved first holds a key the other lacks
C18_Witness ==
    /\ Saved /\ last.wrote /\ last.before.op \in {"save", "close"} /\ last.before.wrote
    /\ last.before.c # last.c
    /\ \E k \in Keys : Has(data[last.before.c], k) /\ ~Has(data[last.c], k)
    /\ data[last.c] # <<>>

====
